---- MODULE Spec2Model ----
(***************************************************************************)
(* Model of the Onshape STL importer (src/src/server.ts) and of its setup  *)
(* script (src/unnamed/part_000).                                          *)
(*                                                                         *)
(* The importer is a Node process: module initialisation reads two         *)
(* credential keys and either exits or computes the Basic authorization    *)
(* header, startServer registers the tool import_stl and connects the      *)
(* transport, and every invocation of import_stl runs an async handler     *)
(* that chains three awaited REST calls.  A handler runs from one await to *)
(* the next without interruption (Node is single threaded), so one action  *)
(* is "a response arrives and the handler runs up to its next fetch or its *)
(* return".  Several invocations may be suspended at once.                 *)
(*                                                                         *)
(* Texts (messages, paths) are sequences of string tokens, so that "the    *)
(* text contains the status code" is a statement about the tokens.         *)
(***************************************************************************)
EXTENDS Integers, Sequences, FiniteSets, TLC

VARIABLES
    proc,            \* "loading" | "exited" | "ready" | "serving"
    accessKey,       \* process.env.ONSHAPE_ACCESS_KEY
    secretKey,       \* process.env.ONSHAPE_SECRET_KEY
    authHeader,      \* the module constant authHeader
    toolRegistered,  \* server.tool("import_stl", ...) has run
    connected,       \* server.connect(transport) has run
    clock,           \* the wall clock, in milliseconds
    inv,             \* the invocations of import_stl: the handler's locals
    calls,           \* per invocation, the fetches it issued and their responses
    docs,            \* the service's document store (ids)
    nextId,          \* the service's id counter
    spc,             \* setup script: position
    file,            \* setup script: the configuration file
    fileAtStart,     \* setup script: the configuration file when the script started
    backup,          \* setup script: the backup file
    writes,          \* setup script: number of writes made to the configuration file
    envAccess,       \* setup script: $ONSHAPE_ACCESS_KEY
    envSecret,       \* setup script: $ONSHAPE_SECRET_KEY
    finalAccess,     \* setup script: $FINAL_ACCESS_KEY
    finalSecret      \* setup script: $FINAL_SECRET_KEY

serverVars == <<proc, accessKey, secretKey, authHeader, toolRegistered, connected,
                clock, inv, calls, docs, nextId>>
setupVars == <<spc, file, fileAtStart, backup, writes, envAccess, envSecret,
               finalAccess, finalSecret>>
vars == <<proc, accessKey, secretKey, authHeader, toolRegistered, connected,
          clock, inv, calls, docs, nextId,
          spc, file, fileAtStart, backup, writes, envAccess, envSecret,
          finalAccess, finalSecret>>

(***************************************************************************)
(* Bounds                                                                  *)
(***************************************************************************)
MaxInv == 2
MaxClock == 1

Invs == 1..MaxInv

(***************************************************************************)
(* JavaScript values                                                       *)
(***************************************************************************)
Undef == "undefined"
Absent == "<unset>"

Contains(text, tok) == \E k \in DOMAIN text : text[k] = tok

\* !x for a string-or-undefined x
Falsy(x) == x = Absent \/ x = Undef \/ x = ""

(***************************************************************************)
(* Module initialisation                                                   *)
(***************************************************************************)
KeyValues == {Absent, "", "AK"}

Base64(s) == "b64(" \o s \o ")"

NoHeader == ""

AuthHeaderOf(a, s) == "Basic " \o Base64(a \o ":" \o s)

KeysMissingAccessOnly(a, s) == Falsy(a)
KeysMissing(a, s) == Falsy(a) \/ Falsy(s)

(***************************************************************************)
(* The tool's input schema and the handler's defaults                      *)
(***************************************************************************)
StlValues == {"", "solid t\nendsolid t"}
NameValues == {Undef, "bracket"}
\* the optional filename and createNewPartStudio: both omitted, or both given
OptionValues == {<<Undef, Undef>>, <<"my part.stl", "true">>}

Params == {[stl |-> s, documentName |-> n, filename |-> o[1],
            createNewPartStudio |-> o[2]] :
               s \in StlValues, n \in NameValues, o \in OptionValues}

\* z.string().min(1)
SchemaAcceptsAny(p) == TRUE
SchemaAccepts(p) == Len(p.stl) >= 1

\* the tool protocol's answer to arguments the schema rejects
ValidationError ==
    [isError |-> TRUE, text |-> <<"Invalid arguments for tool import_stl">>]

\* Date.prototype.toISOString, of a clock reading in milliseconds
toISOStringSeconds(t) == ToString(t \div 1000) \o "Z"
toISOString(t) == ToString(t \div 1000) \o "." \o ToString(t % 1000) \o "Z"

DocNameOf(p, t) ==
    IF p.documentName = Undef THEN "AI Model " \o toISOString(t) ELSE p.documentName

FileNameOf(p) == IF p.filename = Undef THEN "model.stl" ELSE p.filename

encodeURIComponent(s) == IF s = "my part.stl" THEN "my%20part.stl" ELSE s

(***************************************************************************)
(* The three requests                                                      *)
(***************************************************************************)
NoBody == [name |-> Undef, public |-> Undef, filename |-> Undef, content |-> Undef,
           format |-> Undef, blobElementId |-> Undef,
           importIntoPartStudio |-> Undef, createNewPartStudio |-> Undef]

CreatePath == <<"/documents">>
CreateBody(docName) == [NoBody EXCEPT !.name = docName, !.public = "false"]

UploadPathSwapped(doc, fileName) ==
    <<"/blobelements/d/", doc.ws, "/w/", doc.id,
      "?encodedFilename=", encodeURIComponent(fileName)>>
UploadPath(doc, fileName) ==
    <<"/blobelements/d/", doc.id, "/w/", doc.ws,
      "?encodedFilename=", encodeURIComponent(fileName)>>
UploadBody(stl, fileName) == [NoBody EXCEPT !.content = stl, !.filename = fileName]

ImportPath(doc) == <<"/partstudios/d/", doc.id, "/w/", doc.ws, "/import">>
ImportBody(blobId, p) ==
    [NoBody EXCEPT !.format = "STL", !.blobElementId = blobId,
                   !.importIntoPartStudio = "true",
                   !.createNewPartStudio =
                       IF p.createNewPartStudio = Undef THEN "false"
                       ELSE p.createNewPartStudio]

(***************************************************************************)
(* onshapeApiRequest                                                       *)
(***************************************************************************)
NoResponse == [resolved |-> FALSE, status |-> 0, text |-> "<pending>",
               id |-> Undef, ws |-> Undef]

\* the options handed to fetch
Request(kind, method, path, body) ==
    [kind |-> kind, method |-> method, path |-> path,
     authorization |-> authHeader, accept |-> "application/json",
     contentType |-> IF kind = "upload" THEN "multipart/form-data"
                     ELSE "application/json",
     body |-> body, res |-> NoResponse]

JsonText == "<json>"

\* res.ok
ResOk(r) == r.resolved /\ r.status >= 200 /\ r.status <= 299

ApiErrorMessageNoStatus(r) == <<"Onshape API Error ", ": ", r.text>>
ApiErrorMessage(r) == <<"Onshape API Error ", ToString(r.status), ": ", r.text>>

NoValue == [id |-> Undef, ws |-> Undef]

\* what awaiting onshapeApiRequest gives, for the response r of its fetch:
\* a thrown error with its message, or the parsed value
ApiOutcomeNoThrow(r) ==
    IF ~r.resolved
    THEN [threw |-> TRUE, message |-> <<r.text>>, value |-> NoValue]
    ELSE IF r.text = JsonText
    THEN [threw |-> FALSE, message |-> <<>>, value |-> [id |-> r.id, ws |-> r.ws]]
    ELSE [threw |-> FALSE, message |-> <<>>, value |-> NoValue]
ApiOutcome(r) ==
    IF ~r.resolved
    THEN [threw |-> TRUE, message |-> <<r.text>>, value |-> NoValue]
    ELSE IF ~ResOk(r)
    THEN [threw |-> TRUE, message |-> ApiErrorMessage(r), value |-> NoValue]
    ELSE IF r.text = ""
    THEN [threw |-> FALSE, message |-> <<>>, value |-> NoValue]
    ELSE IF r.text = JsonText
    THEN [threw |-> FALSE, message |-> <<>>, value |-> [id |-> r.id, ws |-> r.ws]]
    ELSE [threw |-> TRUE, message |-> <<"Unexpected token < in JSON at position 0">>,
          value |-> NoValue]

\* reading doc.defaultWorkspace.id of a document without defaultWorkspace
TypeErrorMessage == <<"Cannot read properties of undefined (reading 'id')">>

(***************************************************************************)
(* The handler's results                                                   *)
(***************************************************************************)
NoResult == [isError |-> FALSE, text |-> <<>>]

ViewerUrl(id) == "https://cad.onshape.com/documents/" \o id

SuccessResult(docName, doc) ==
    [isError |-> FALSE,
     text |-> <<"Imported STL into Onshape!\nDocument: ", docName,
                "\nID: ", doc.id, "\nView: ", ViewerUrl(doc.id)>>]

ErrorResultNoFlag(message) ==
    [isError |-> FALSE, text |-> <<"Error importing STL: ">> \o message]
ErrorResult(message) ==
    [isError |-> TRUE, text |-> <<"Error importing STL: ">> \o message]

\* the requests the catch block issues: none
CatchRequestsDelete(doc) ==
    IF doc.id = Undef THEN <<>>
    ELSE <<Request("delete", "DELETE", <<"/documents/", doc.id>>, NoBody)>>
CatchRequests(doc) == <<>>

\* the handler's binding "const doc" of one invocation
BoundDocShared(i, v) ==
    IF \E j \in Invs : j # i /\ inv[j].doc.id # Undef
    THEN inv[CHOOSE j \in Invs : j # i /\ inv[j].doc.id # Undef].doc
    ELSE v
BoundDoc(i, v) == v

(***************************************************************************)
(* The service's responses                                                 *)
(***************************************************************************)
HttpErrors == {[resolved |-> TRUE, status |-> 401, text |-> "Unauthenticated",
                id |-> Undef, ws |-> Undef],
               [resolved |-> TRUE, status |-> 500, text |-> "Internal error",
                id |-> Undef, ws |-> Undef]}

NetworkErrors == {[resolved |-> FALSE, status |-> 0, text |-> "socket hang up",
                   id |-> Undef, ws |-> Undef]}

\* a success status whose body is the JSON value with the fields id and
\* defaultWorkspace.id, an empty body, or a body that is not JSON
OkResponses(id, ws) ==
    {[resolved |-> TRUE, status |-> 200, text |-> JsonText, id |-> id, ws |-> ws],
     [resolved |-> TRUE, status |-> 200, text |-> "", id |-> Undef, ws |-> Undef],
     [resolved |-> TRUE, status |-> 200, text |-> "<html>", id |-> Undef, ws |-> Undef]}

Responses(id, ws) == OkResponses(id, ws) \cup HttpErrors \cup NetworkErrors

NewDocId == "d" \o ToString(nextId)
NewWsId == "w" \o ToString(nextId)
\* the service numbers the blob elements of a document within that document
NewBlobId(doc) == "b1-" \o doc.id

\* the documents a sequence of requests deletes
Deleted(reqs) == {reqs[k].path[2] : k \in {n \in DOMAIN reqs : reqs[n].kind = "delete"}}

(***************************************************************************)
(* Initial state                                                           *)
(***************************************************************************)
NoDoc == [id |-> Undef, ws |-> Undef]

IdleInv == [pc |-> "idle",
            params |-> [stl |-> "", documentName |-> Undef, filename |-> Undef,
                        createNewPartStudio |-> Undef],
            startedAt |-> 0, docName |-> "", fileName |-> "",
            doc |-> NoDoc, blobId |-> Undef, result |-> NoResult]

NoFile == [exists |-> FALSE, parses |-> FALSE, mcpServers |-> "none",
           servers |-> {}, layout |-> "none", entry |-> <<>>]

SetupIdle ==
    /\ spc = "off"
    /\ file = NoFile
    /\ fileAtStart = NoFile
    /\ backup = NoFile
    /\ writes = 0
    /\ envAccess = ""
    /\ envSecret = ""
    /\ finalAccess = ""
    /\ finalSecret = ""

ServerIdle ==
    /\ proc = "off"
    /\ accessKey = Absent
    /\ secretKey = Absent
    /\ authHeader = NoHeader
    /\ toolRegistered = FALSE
    /\ connected = FALSE
    /\ clock = 0
    /\ inv = [i \in Invs |-> IdleInv]
    /\ calls = [i \in Invs |-> <<>>]
    /\ docs = {}
    /\ nextId = 1

Init ==
    /\ proc = "loading"
    /\ accessKey \in KeyValues
    /\ secretKey \in KeyValues
    /\ authHeader = NoHeader
    /\ toolRegistered = FALSE
    /\ connected = FALSE
    /\ clock = 0
    /\ inv = [i \in Invs |-> IdleInv]
    /\ calls = [i \in Invs |-> <<>>]
    /\ docs = {}
    /\ nextId = 1
    /\ SetupIdle

(***************************************************************************)
(* Startup                                                                 *)
(***************************************************************************)
\* module initialisation: the credential check and authHeader
LoadModule ==
    /\ proc = "loading"
    /\ IF KeysMissing(accessKey, secretKey)
       THEN /\ proc' = "exited"
            /\ UNCHANGED authHeader
       ELSE /\ proc' = "ready"
            /\ authHeader' = AuthHeaderOf(accessKey, secretKey)
    /\ UNCHANGED <<accessKey, secretKey, toolRegistered, connected, clock, inv,
                   calls, docs, nextId>>
    /\ UNCHANGED setupVars

\* startServer: server.tool(...) and server.connect(...)
StartServer ==
    /\ proc = "ready"
    /\ proc' = "serving"
    /\ toolRegistered' = TRUE
    /\ connected' = TRUE
    /\ UNCHANGED <<accessKey, secretKey, authHeader, clock, inv, calls, docs, nextId>>
    /\ UNCHANGED setupVars

(***************************************************************************)
(* import_stl                                                              *)
(***************************************************************************)
\* the catch block, for an error thrown with the given message
Catch(i, message, doc, log, created) ==
    /\ inv' = [inv EXCEPT ![i] = [@ EXCEPT !.pc = "done", !.doc = doc,
                                            !.result = ErrorResult(message)]]
    /\ calls' = [calls EXCEPT ![i] = log \o CatchRequests(doc)]
    /\ docs' = (docs \cup created) \ Deleted(CatchRequests(doc))

\* An invocation arrives at clock reading t: the schema is checked, and the
\* handler runs to its first fetch.
Invoke(i, p, t) ==
    /\ toolRegistered /\ connected
    /\ inv[i].pc = "idle"
    /\ \A j \in Invs : j < i => inv[j].pc # "idle"
    /\ t >= clock
    /\ clock' = t
    /\ IF ~SchemaAccepts(p)
       THEN /\ inv' = [inv EXCEPT ![i] = [@ EXCEPT !.pc = "done", !.params = p,
                                                   !.startedAt = t,
                                                   !.result = ValidationError]]
            /\ UNCHANGED calls
       ELSE /\ inv' = [inv EXCEPT ![i] = [@ EXCEPT !.pc = "awaitCreate", !.params = p,
                                                   !.startedAt = t,
                                                   !.docName = DocNameOf(p, t),
                                                   !.fileName = FileNameOf(p)]]
            /\ calls' = [calls EXCEPT ![i] =
                   <<Request("create", "POST", CreatePath, CreateBody(DocNameOf(p, t)))>>]
    /\ UNCHANGED <<proc, accessKey, secretKey, authHeader, toolRegistered, connected,
                   docs, nextId>>
    /\ UNCHANGED setupVars

\* The create-document call's response r arrives; the handler runs to the
\* upload's fetch or to its return.
RespondCreate(i, r) ==
    /\ inv[i].pc = "awaitCreate"
    /\ LET o == ApiOutcome(r)
           created == IF ResOk(r) THEN {NewDocId} ELSE {}
           log == [calls[i] EXCEPT ![1].res = r]
           doc == BoundDoc(i, o.value)
       IN /\ nextId' = IF ResOk(r) THEN nextId + 1 ELSE nextId
          /\ IF o.threw
             THEN Catch(i, o.message, NoDoc, log, created)
             ELSE IF doc.ws = Undef
             THEN Catch(i, TypeErrorMessage, doc, log, created)
             ELSE /\ inv' = [inv EXCEPT ![i] = [@ EXCEPT !.pc = "awaitUpload",
                                                         !.doc = doc]]
                  /\ calls' = [calls EXCEPT ![i] = Append(log,
                         Request("upload", "POST", UploadPath(doc, inv[i].fileName),
                                 UploadBody(inv[i].params.stl, inv[i].fileName)))]
                  /\ docs' = docs \cup created
    /\ UNCHANGED <<proc, accessKey, secretKey, authHeader, toolRegistered, connected,
                   clock>>
    /\ UNCHANGED setupVars

\* The upload's response r arrives; the handler runs to the import's fetch or
\* to its return.
RespondUpload(i, r) ==
    /\ inv[i].pc = "awaitUpload"
    /\ LET o == ApiOutcome(r)
           log == [calls[i] EXCEPT ![2].res = r]
       IN /\ UNCHANGED nextId
          /\ IF o.threw
             THEN Catch(i, o.message, inv[i].doc, log, {})
             ELSE /\ inv' = [inv EXCEPT ![i] = [@ EXCEPT !.pc = "awaitImport",
                                                         !.blobId = o.value.id]]
                  /\ calls' = [calls EXCEPT ![i] = Append(log,
                         Request("import", "POST", ImportPath(inv[i].doc),
                                 ImportBody(o.value.id, inv[i].params)))]
                  /\ UNCHANGED docs
    /\ UNCHANGED <<proc, accessKey, secretKey, authHeader, toolRegistered, connected,
                   clock>>
    /\ UNCHANGED setupVars

\* The import's response r arrives; the handler returns.
RespondImport(i, r) ==
    /\ inv[i].pc = "awaitImport"
    /\ LET o == ApiOutcome(r)
           log == [calls[i] EXCEPT ![3].res = r]
       IN IF o.threw
          THEN Catch(i, o.message, inv[i].doc, log, {})
          ELSE /\ inv' = [inv EXCEPT ![i] = [@ EXCEPT !.pc = "done",
                              !.result = SuccessResult(inv[i].docName, inv[i].doc)]]
               /\ calls' = [calls EXCEPT ![i] = log]
               /\ UNCHANGED docs
    /\ UNCHANGED <<proc, accessKey, secretKey, authHeader, toolRegistered, connected,
                   clock, nextId>>
    /\ UNCHANGED setupVars

Next ==
    \/ LoadModule
    \/ StartServer
    \/ \E i \in Invs, p \in Params, t \in 0..MaxClock : Invoke(i, p, t)
    \/ \E i \in Invs : \E r \in Responses(NewDocId, NewWsId) : RespondCreate(i, r)
    \/ \E i \in Invs : \E r \in Responses(NewBlobId(inv[i].doc), Undef) : RespondUpload(i, r)
    \/ \E i \in Invs : \E r \in Responses("t1", Undef) : RespondImport(i, r)

Spec == Init /\ [][Next]_vars

(***************************************************************************)
(* The setup script                                                        *)
(*                                                                         *)
(* The configuration file is modelled by what the script reads of it:      *)
(* whether it exists and parses as JSON, its mcpServers member, the other  *)
(* servers registered in it, its layout (the script rewrites it with       *)
(* JSON.stringify(config, null, 2)) and the onshape_mcp entry.             *)
(***************************************************************************)
NoEntry == <<>>

OldEntry == <<"node", "/old/dist/server.js", "OLDKEY", "OLDSECRET",
              "https://cad.onshape.com/api/v6">>

\* the file written by the here-document of step 5
FreshFile == [exists |-> TRUE, parses |-> TRUE, mcpServers |-> "map",
              servers |-> {}, layout |-> "heredoc", entry |-> NoEntry]

ExistingFiles ==
    {[exists |-> TRUE, parses |-> FALSE, mcpServers |-> "none",
      servers |-> {}, layout |-> "original", entry |-> NoEntry],
     [exists |-> TRUE, parses |-> TRUE, mcpServers |-> "missing",
      servers |-> {}, layout |-> "original", entry |-> NoEntry],
     [exists |-> TRUE, parses |-> TRUE, mcpServers |-> "null",
      servers |-> {}, layout |-> "pretty", entry |-> NoEntry],
     [exists |-> TRUE, parses |-> TRUE, mcpServers |-> "map",
      servers |-> {}, layout |-> "original", entry |-> NoEntry],
     [exists |-> TRUE, parses |-> TRUE, mcpServers |-> "map",
      servers |-> {"filesystem"}, layout |-> "pretty", entry |-> NoEntry],
     [exists |-> TRUE, parses |-> TRUE, mcpServers |-> "map",
      servers |-> {"filesystem"}, layout |-> "original", entry |-> OldEntry]}

EnvKeys == {"", "EK"}
TypedKeys == {"", "TK"}

\* !config.mcpServers
LacksServers(f) == f.mcpServers # "map"

\* config.mcpServers = {} ; JSON.stringify(config, null, 2)
WithServers(f) ==
    [f EXCEPT !.mcpServers = "map", !.layout = "pretty"]

\* config.mcpServers['onshape_mcp'] = {...} ; JSON.stringify(config, null, 2)
WithEntry(f, access, secret) ==
    [f EXCEPT !.mcpServers = "map", !.layout = "pretty",
              !.entry = <<"node", "$PROJECT_DIRECTORY/dist/server.js", access, secret,
                          "https://cad.onshape.com/api/v11">>]

SetupInit ==
    /\ ServerIdle
    /\ spc = "build"
    /\ file \in {NoFile} \cup ExistingFiles
    /\ fileAtStart = file
    /\ backup = NoFile
    /\ writes = 0
    /\ envAccess \in EnvKeys
    /\ envSecret \in EnvKeys
    /\ finalAccess = ""
    /\ finalSecret = ""

\* step 1: npm run build, which succeeds or fails
Build(ok) ==
    /\ spc = "build"
    /\ spc' = IF ok THEN "config" ELSE "exited"
    /\ UNCHANGED <<file, fileAtStart, backup, writes, envAccess, envSecret,
                   finalAccess, finalSecret>>
    /\ UNCHANGED serverVars

\* step 5: create the configuration file, or validate the existing one
ConfigStep ==
    /\ spc = "config"
    /\ IF ~file.exists
       THEN /\ file' = FreshFile
            /\ writes' = writes + 1
            /\ spc' = "keys"
       ELSE IF ~file.parses
       THEN /\ spc' = "exited"
            /\ UNCHANGED <<file, writes>>
       ELSE IF LacksServers(file)
       THEN /\ file' = WithServers(file)
            /\ writes' = writes + 1
            /\ spc' = "keys"
       ELSE /\ spc' = "keys"
            /\ UNCHANGED <<file, writes>>
    /\ UNCHANGED <<fileAtStart, backup, envAccess, envSecret, finalAccess, finalSecret>>
    /\ UNCHANGED serverVars

\* step 6: read the two keys, falling back to the environment
ReadKeys(typedAccess, typedSecret) ==
    /\ spc = "keys"
    /\ finalAccess' = IF typedAccess # "" THEN typedAccess ELSE envAccess
    /\ finalSecret' = IF typedSecret # "" THEN typedSecret ELSE envSecret
    /\ spc' = "validate"
    /\ UNCHANGED <<file, fileAtStart, backup, writes, envAccess, envSecret>>
    /\ UNCHANGED serverVars

\* step 6: both keys are required
ValidateKeys ==
    /\ spc = "validate"
    /\ spc' = IF finalAccess = "" \/ finalSecret = "" THEN "exited" ELSE "backup"
    /\ UNCHANGED <<file, fileAtStart, backup, writes, envAccess, envSecret,
                   finalAccess, finalSecret>>
    /\ UNCHANGED serverVars

\* step 7: cp config config.backup.<timestamp>
Backup ==
    /\ spc = "backup"
    /\ backup' = file
    /\ spc' = "update"
    /\ UNCHANGED <<file, fileAtStart, writes, envAccess, envSecret,
                   finalAccess, finalSecret>>
    /\ UNCHANGED serverVars

\* step 7: add the onshape_mcp entry and write the file
Update ==
    /\ spc = "update"
    /\ file' = WithEntry(file, finalAccess, finalSecret)
    /\ writes' = writes + 1
    /\ spc' = "done"
    /\ UNCHANGED <<fileAtStart, backup, envAccess, envSecret, finalAccess, finalSecret>>
    /\ UNCHANGED serverVars

SetupNext ==
    \/ \E ok \in BOOLEAN : Build(ok)
    \/ ConfigStep
    \/ \E a \in TypedKeys, b \in TypedKeys : ReadKeys(a, b)
    \/ ValidateKeys
    \/ Backup
    \/ Update

SetupSpec == SetupInit /\ [][SetupNext]_vars

(***************************************************************************)
(* Properties                                                              *)
(***************************************************************************)
Pattern == <<"create", "upload", "import">>

Kinds(i) == [k \in DOMAIN calls[i] |-> calls[i][k].kind]

IsPrefix(s, t) == Len(s) <= Len(t) /\ \A k \in DOMAIN s : s[k] = t[k]

Done(i) == inv[i].pc = "done"

Answered(c) == c.res # NoResponse

\* every call the invocation issued got a success status
AllOk(i) == \A k \in DOMAIN calls[i] : ResOk(calls[i][k].res)

\* the upload goes to the document and workspace the create call returned, the
\* import to the same two with the blob the upload returned
UploadChained(i) ==
    /\ calls[i][2].path[2] = calls[i][1].res.id
    /\ calls[i][2].path[4] = calls[i][1].res.ws

ImportChained(i) ==
    /\ calls[i][3].path[2] = calls[i][1].res.id
    /\ calls[i][3].path[4] = calls[i][1].res.ws
    /\ calls[i][3].body.blobElementId = calls[i][2].res.id

ThreeCallsChained(i) ==
    /\ Kinds(i) = Pattern
    /\ UploadChained(i)
    /\ ImportChained(i)

\* the create and upload responses carry the JSON value with the identifiers
CarriesIds(i) ==
    \A k \in DOMAIN calls[i] : k <= 2 => calls[i][k].res.text = JsonText

\* C1 as stated: an invocation with non-empty STL whose every call received a
\* success status has issued exactly create, upload, import, each addressed
\* with the identifiers the previous one returned.
C1_Original ==
    \A i \in Invs :
        (Done(i) /\ inv[i].params.stl # "" /\ AllOk(i)) => ThreeCallsChained(i)

\* C1 amended: the calls of an invocation are always a prefix of create,
\* upload, import; and an invocation with non-empty STL whose every call
\* received a success status, the create and upload responses carrying their
\* JSON identifiers, has issued exactly the three, chained by those identifiers.
C1_ThreeCallsInOrder ==
    \A i \in Invs :
        /\ IsPrefix(Kinds(i), Pattern)
        /\ (Done(i) /\ inv[i].params.stl # "" /\ AllOk(i) /\ CarriesIds(i))
               => ThreeCallsChained(i)

C1_Witness ==
    \E i \in Invs : Done(i) /\ AllOk(i) /\ CarriesIds(i) /\ Len(calls[i]) = 3

\* C2: a call that failed (no response, or a non-success status) is the last
\* call of its invocation, and no kind of call is issued twice.
C2_NoCallAfterFailure ==
    \A i \in Invs :
        /\ \A k \in DOMAIN calls[i] :
               (Answered(calls[i][k]) /\ ~ResOk(calls[i][k].res)) => k = Len(calls[i])
        /\ \A k, m \in DOMAIN calls[i] : k # m => calls[i][k].kind # calls[i][m].kind

C2_Witness ==
    \E i \in Invs :
        /\ Done(i) /\ Len(calls[i]) = 2
        /\ Answered(calls[i][2]) /\ ~ResOk(calls[i][2].res)

\* C3: an invocation with empty STL text makes no call and returns an error.
C3_EmptyRejected ==
    \A i \in Invs :
        (inv[i].pc # "idle" /\ inv[i].params.stl = "")
            => (calls[i] = <<>> /\ Done(i) /\ inv[i].result.isError)

C3_Witness ==
    \E i \in Invs : Done(i) /\ inv[i].params.stl = "" /\ inv[i].result.isError

\* C4: a completed invocation's result lacks the error flag only if its calls
\* were create, upload, import, all answered with a success status, and then
\* its text contains the document id the create call returned and the viewer
\* URL of that id.
C4_SuccessOnlyIfAllSucceeded ==
    \A i \in Invs :
        (Done(i) /\ ~inv[i].result.isError)
            => /\ Kinds(i) = Pattern
               /\ AllOk(i)
               /\ Contains(inv[i].result.text, calls[i][1].res.id)
               /\ Contains(inv[i].result.text, ViewerUrl(calls[i][1].res.id))

C4_Witness ==
    \E i \in Invs : Done(i) /\ ~inv[i].result.isError /\ calls[i][1].res.id # Undef

\* C5: when a call is answered with a non-success status, the invocation has
\* returned an error result whose text contains that status code and that
\* response's body.
C5_HttpErrorReported ==
    \A i \in Invs : \A k \in DOMAIN calls[i] :
        (calls[i][k].res.resolved /\ ~ResOk(calls[i][k].res))
            => /\ Done(i)
               /\ inv[i].result.isError
               /\ Contains(inv[i].result.text, ToString(calls[i][k].res.status))
               /\ Contains(inv[i].result.text, calls[i][k].res.text)

C5_Witness ==
    \E i \in Invs :
        /\ Len(calls[i]) = 1 /\ calls[i][1].res.status = 401
        /\ Contains(inv[i].result.text, "401")

UsesDefaultName(i) ==
    inv[i].pc # "idle" /\ calls[i] # <<>> /\ inv[i].params.documentName = Undef

\* C6 as stated: no two invocations send the same default name.
C6_Original ==
    \A i, j \in Invs :
        (i # j /\ UsesDefaultName(i) /\ UsesDefaultName(j))
            => calls[i][1].body.name # calls[j][1].body.name

\* C6 amended: two invocations that start at different clock readings send
\* different default names.
C6_DefaultNameByClock ==
    \A i, j \in Invs :
        (i # j /\ UsesDefaultName(i) /\ UsesDefaultName(j)
              /\ inv[i].startedAt # inv[j].startedAt)
            => calls[i][1].body.name # calls[j][1].body.name

C6_Witness ==
    \E i, j \in Invs :
        /\ i # j /\ UsesDefaultName(i) /\ UsesDefaultName(j)
        /\ inv[i].startedAt # inv[j].startedAt

\* C7: with a credential key absent the process never registers the tool nor
\* connects, serves no invocation and makes no call; otherwise every call
\* carries the Basic header of the two keys.
C7_Credentials ==
    /\ (accessKey = Absent \/ secretKey = Absent)
           => /\ proc \in {"loading", "exited"}
              /\ ~toolRegistered /\ ~connected
              /\ \A i \in Invs : inv[i].pc = "idle" /\ calls[i] = <<>>
    /\ \A i \in Invs : \A k \in DOMAIN calls[i] :
           calls[i][k].authorization = "Basic " \o Base64(accessKey \o ":" \o secretKey)

C7_Witness ==
    proc = "exited" /\ accessKey # Absent /\ secretKey = Absent

\* C8: once the script has written to a configuration file that existed when
\* it started, the backup holds the content the file had at the start.
C8_BackupBeforeWrite ==
    (spc # "off" /\ fileAtStart.exists /\ writes > 0) => backup = fileAtStart

\* C9: the adapter issues only create, upload and import calls (no delete), a
\* document whose create call was followed by another call stays in the
\* store, and every started invocation opens with its own create call, two
\* successful ones giving two documents.
C9_NoRollback ==
    /\ \A i \in Invs : \A k \in DOMAIN calls[i] :
           calls[i][k].kind \in {"create", "upload", "import"}
               /\ calls[i][k].method = "POST"
    /\ \A i \in Invs : Len(calls[i]) >= 2 => calls[i][1].res.id \in docs
    /\ \A i \in Invs :
           (inv[i].pc # "idle" /\ inv[i].params.stl # "")
               => (calls[i] # <<>> /\ calls[i][1].kind = "create")
    /\ \A i, j \in Invs :
           (i # j /\ Len(calls[i]) >= 2 /\ Len(calls[j]) >= 2)
               => calls[i][1].res.id # calls[j][1].res.id

C9_Witness ==
    \E i, j \in Invs :
        /\ i < j /\ inv[i].params = inv[j].params
        /\ Done(i) /\ inv[i].result.isError /\ Len(calls[i]) >= 2
        /\ Len(calls[j]) >= 2
        /\ {calls[i][1].res.id, calls[j][1].res.id} \subseteq docs

\* an invocation's upload and import use the identifiers returned to itself
Isolated(i) ==
    /\ Len(calls[i]) >= 2 => UploadChained(i)
    /\ Len(calls[i]) >= 3 => ImportChained(i)

\* the bodies of the invocation's responses can be read: the create and upload
\* bodies carry their identifiers, the import body is empty or JSON
BodiesReadable(i) ==
    /\ CarriesIds(i)
    /\ \A k \in DOMAIN calls[i] : calls[i][k].res.text \in {"", JsonText}

\* C10 as stated: invocations use their own identifiers, and an invocation
\* whose three calls all received a success status returns success.
C10_Original ==
    \A i \in Invs :
        /\ Isolated(i)
        /\ (Done(i) /\ Kinds(i) = Pattern /\ AllOk(i)) => ~inv[i].result.isError

\* C10 amended: invocations use their own identifiers, and an invocation
\* whose three calls all received a success status with readable bodies
\* returns success, whatever happened to the others.
C10_Isolation ==
    \A i \in Invs :
        /\ Isolated(i)
        /\ (Done(i) /\ Kinds(i) = Pattern /\ AllOk(i) /\ BodiesReadable(i))
               => ~inv[i].result.isError

\* invocation 2 started after invocation 1 and got its document first, then
\* failed, and invocation 1 succeeded
C10_Witness ==
    /\ MaxInv >= 2
    /\ Done(1) /\ ~inv[1].result.isError
    /\ Done(2) /\ inv[2].result.isError /\ Len(calls[2]) >= 2
    /\ calls[1][1].res.id = "d2"

====
